---- MODULE Spec2Model ----
(***************************************************************************)
(* Kalman variational autoencoder (nkgvl/kalman-vae): the facade           *)
(* KalmanVariationalAutoencoder (src/kalman_vae.py) and the evaluation     *)
(* harness (src/kvae/evaluation.py).                                       *)
(*                                                                         *)
(* Tensors are modelled with batch size 1, a_dim = z_dim = 1 and one       *)
(* pixel per image: a tensor of shape (T, 1, 1) is a sequence of length T. *)
(* Real numbers are fixed-point integers with denominator One.  The        *)
(* state-space model, the sample control and the encoder/decoder networks  *)
(* are not part of src/; they are modelled from spec.md (sections 4 and 6).*)
(***************************************************************************)
EXTENDS Integers, Sequences, FiniteSets, TLC

(***************************************************************************)
(* Bounds of the model.                                                    *)
(***************************************************************************)
MaxSeq == 2
\* longest input sequence (seq_length = xs.shape[0])

MaxSteps == 1
\* largest num_steps given to predict_future

RngPeriod == 4
\* number of states of the global random generator

(***************************************************************************)
(* Fixed-point arithmetic.                                                 *)
(***************************************************************************)
One == 2 ^ 4

FMul(a, b) == (a * b) \div One

FDiv(a, b) == (a * One) \div b

RECURSIVE ILog2(_)
ILog2(n) == IF n <= 1 THEN 0 ELSE 1 + ILog2(n \div 2)

\* natural logarithm of a positive fixed-point number: ln 2 * floor(log2 v)
FLog(v) == ((ILog2(v) - ILog2(One)) * 693 * One) \div 1000

RECURSIVE ISqrtFrom(_, _)
ISqrtFrom(n, r) == IF (r + 1) * (r + 1) > n THEN r ELSE ISqrtFrom(n, r + 1)

\* square root of a non-negative fixed-point number (1x1 Cholesky factor)
FSqrt(v) == ISqrtFrom(v * One, 0)

HalfLog2Pi == (919 * One) \div 1000

RECURSIVE SumSeq(_)
SumSeq(s) == IF s = <<>> THEN 0 ELSE Head(s) + SumSeq(Tail(s))

\* Python's None, where a sequence (a mask, a seed) may be absent
None == <<>>

(***************************************************************************)
(* The global random generator of torch.  A generator state is a number in *)
(* 0..RngPeriod-1; torch.manual_seed sets it, every scalar draw advances   *)
(* it by one.                                                              *)
(***************************************************************************)
RngStates == 0 .. (RngPeriod - 1)

\* the standard-normal value drawn in generator state g
NormalAt(g) == ((g % 3) - 1) * One

\* n consecutive standard-normal draws starting in state g
NormalDraws(g, n) == [i \in 1 .. n |-> NormalAt((g + i - 1) % RngPeriod)]

RngAfter(g, n) == (g + n) % RngPeriod

(***************************************************************************)
(* Encoder and decoder networks (variationa_autoencoder, not in src/):     *)
(* spec.md section 6.  encode(image) is a Normal(mean, scale) over a_dim,  *)
(* decode(feature) a Normal(mean, scale) over the pixel.                   *)
(***************************************************************************)
Pixels == {0, One}

EncoderScale == One \div 2

Encoder(x) == [mean |-> IF x >= One \div 2 THEN One ELSE -One, scale |-> EncoderScale]

DecoderScale == One

Decoder(a) == [mean |-> (a + One) \div 2, scale |-> DecoderScale]

\* torch.distributions.Normal(mean, scale).log_prob(x)
NormalLogProb(d, x) ==
    LET u == FDiv(x - d.mean, d.scale)
    IN  -(FMul(u, u) \div 2) - FLog(d.scale) - HalfLog2Pi

\* torch.distributions.MultivariateNormal(mean, cov).log_prob(x), 1x1 covariance
MvnLogProb(mean, cov, x) ==
    -((FDiv(FMul(x - mean, x - mean), cov) + FLog(cov)) \div 2) - HalfLog2Pi

\* rsample()/sample(): loc + scale_tril * eps
NormalSample(d, eps) == d.mean + FMul(d.scale, eps)

MvnSample(mean, cov, eps) == mean + FMul(FSqrt(cov), eps)

\* kl_divergence(Normal(mean, scale), Normal(0, 1))
NormalKl(d) ==
    (FMul(d.scale, d.scale) + FMul(d.mean, d.mean) - One) \div 2 - FLog(d.scale)

(***************************************************************************)
(* State-space model (state_space_model.StateSpaceModel, not in src/):     *)
(* modelled from spec.md sections 4.1-4.6 with K = 2 base models.          *)
(***************************************************************************)
mat_A_base == <<One, One \div 2>>

mat_C_base == <<One, (3 * One) \div 2>>

mat_Q == One \div 4

mat_R == One \div 4

initial_state_mean == 0

initial_state_covariance == One

\* (S + S^T) / 2 for a 1x1 matrix
Symmetrize(S) == (S + S) \div 2

\* section 4.1: the weights of the first step, and the weights the weight
\* model gives the next step from the latest feature (or its filtered proxy)
InitialWeights == <<One, 0>>

WeightModel(a) == IF a >= 0 THEN <<One \div 2, One \div 2>> ELSE <<0, One>>

\* section 4.2: combine(w) -> (A, C)
Combine(w) ==
    [A |-> FMul(w[1], mat_A_base[1]) + FMul(w[2], mat_A_base[2]),
     C |-> FMul(w[1], mat_C_base[1]) + FMul(w[2], mat_C_base[2])]

\* section 6: an absent mask means fully observed
EffectiveMask(observation_mask, T) ==
    IF observation_mask = None THEN [t \in 1 .. T |-> 1] ELSE observation_mask

\* section 4.3, steps 1-6 for one timestep with prior (mu, P), weights w,
\* feature a and mask value m
FilterStep(mu, P, w, a, m) ==
    LET M    == Combine(w)
        S    == FMul(FMul(M.C, P), M.C) + mat_R
        Kg   == FDiv(FMul(P, M.C), S)
        mu_f == IF m = 1 THEN mu + FMul(Kg, a - FMul(M.C, mu)) ELSE mu
        P_f  == IF m = 1 THEN Symmetrize(FMul(One - FMul(Kg, M.C), P)) ELSE P
        a_f  == FMul(M.C, mu_f)
    IN  [mean |-> mu_f, cov |-> P_f,
         next_mean |-> FMul(M.A, mu_f),
         next_cov |-> Symmetrize(FMul(FMul(M.A, P_f), M.A) + mat_Q),
         A |-> M.A, C |-> M.C, w |-> w, a_filt |-> a_f,
         w_next |-> WeightModel(IF m = 1 THEN a ELSE a_f)]

\* the forward recursion over as_[t..T], from the prior (mu, P) and weights w
RECURSIVE FilterFrom(_, _, _, _, _, _)
FilterFrom(as_, mask, t, mu, P, w) ==
    IF t > Len(as_) THEN <<>>
    ELSE LET s == FilterStep(mu, P, w, as_[t], mask[t])
         IN  <<s>> \o FilterFrom(as_, mask, t + 1, s.next_mean, s.next_cov, s.w_next)

\* kalman_filter(as_, observation_mask): the seven sequences of section 4.3.
\* mat_As and mat_Cs hold the matrices of the T steps and, last, those the
\* weight model selects for the step after the horizon (the facade drops
\* that last entry with mat_Cs[:-1], and predict_future continues from it).
kalman_filter(as_, observation_mask) ==
    LET T     == Len(as_)
        steps == FilterFrom(as_, EffectiveMask(observation_mask, T), 1,
                            initial_state_mean, initial_state_covariance,
                            InitialWeights)
        last  == Combine(steps[T].w_next)
    IN  [filter_means            |-> [t \in 1 .. T |-> steps[t].mean],
         filter_covariances      |-> [t \in 1 .. T |-> steps[t].cov],
         filter_next_means       |-> [t \in 1 .. T |-> steps[t].next_mean],
         filter_next_covariances |-> [t \in 1 .. T |-> steps[t].next_cov],
         mat_As    |-> [t \in 1 .. T |-> steps[t].A] \o <<last.A>>,
         mat_Cs    |-> [t \in 1 .. T |-> steps[t].C] \o <<last.C>>,
         filter_as |-> [t \in 1 .. T |-> steps[t].a_filt]]

\* section 4.4: the smoother gain J[t] = Sigma_filt[t] A[t]^T Sigma_pred[t+1]^-1
SmootherGain(f, t) ==
    FDiv(FMul(f.filter_covariances[t], f.mat_As[t]), f.filter_next_covariances[t])

\* the backward RTS recursion: the smoothed (mean, cov) of steps t..T
RECURSIVE SmoothFrom(_, _)
SmoothFrom(f, t) ==
    IF t = Len(f.filter_means)
    THEN <<[mean |-> f.filter_means[t], cov |-> f.filter_covariances[t]]>>
    ELSE LET rest == SmoothFrom(f, t + 1)
             J    == SmootherGain(f, t)
         IN  <<[mean |-> f.filter_means[t]
                         + FMul(J, rest[1].mean - f.filter_next_means[t]),
                cov  |-> Symmetrize(f.filter_covariances[t]
                         + FMul(FMul(J, rest[1].cov - f.filter_next_covariances[t]), J))]>>
             \o rest

\* the stochastic backward sampling pass: the sampled states of steps t..T;
\* eps[1] is the draw of the last step, eps[2] of the one before, ...
RECURSIVE SampleFrom(_, _, _, _)
SampleFrom(f, sm, eps, t) ==
    LET T == Len(f.filter_means)
    IN  IF t = T
        THEN <<MvnSample(sm[T].mean, sm[T].cov, eps[1])>>
        ELSE LET rest == SampleFrom(f, sm, eps, t + 1)
                 J    == SmootherGain(f, t)
             IN  <<MvnSample(sm[t].mean + FMul(J, rest[1] - f.filter_next_means[t]),
                             Symmetrize(FMul(One - FMul(J, f.mat_As[t]),
                                             f.filter_covariances[t])),
                             eps[T - t + 1])>>
                 \o rest

\* kalman_smooth(as_, filter outputs): {mu_smooth, Sigma_smooth, z_sample,
\* a_resampled} of section 4.4; f holds the filter outputs it is given, eps
\* the T standard-normal draws of the sampling pass
kalman_smooth(as_, f, eps) ==
    LET T  == Len(f.filter_means)
        sm == SmoothFrom(f, 1)
        zs == SampleFrom(f, sm, eps, 1)
    IN  [means        |-> [t \in 1 .. T |-> sm[t].mean],
         covariances  |-> [t \in 1 .. T |-> sm[t].cov],
         zs           |-> zs,
         as_resampled |-> [t \in 1 .. T |-> FMul(f.mat_Cs[t], zs[t])]]

\* section 4.5: the states of the steps after the horizon, one per draw in
\* eps, from the prior (mu, P): no observation update, the last matrices
\* (A, C) reused; the feature is sampled or the mean taken as requested
RECURSIVE RolloutFrom(_, _, _, _, _, _)
RolloutFrom(mu, P, A, C, sampling, eps) ==
    IF eps = <<>> THEN <<>>
    ELSE LET mu_n == FMul(A, mu)
             P_n  == Symmetrize(FMul(FMul(A, P), A) + mat_Q)
             z    == IF sampling THEN MvnSample(mu, P, Head(eps)) ELSE mu
         IN  <<[mean |-> mu, cov |-> P, next_mean |-> mu_n, next_cov |-> P_n,
                a |-> FMul(C, z)]>>
             \o RolloutFrom(mu_n, P_n, A, C, sampling, Tail(eps))

\* state_space_model.predict_future(...): the trajectories it is given,
\* each extended by num_steps forecast steps (concatenated after the history)
ssm_predict_future(as_, means, covariances, filter_next_means, filter_next_covariances, mat_As, mat_Cs, num_steps, sample_control, eps) ==
    LET T  == Len(filter_next_means)
        ro == RolloutFrom(filter_next_means[T], filter_next_covariances[T],
                          mat_As[Len(mat_As)], mat_Cs[Len(mat_Cs)],
                          sample_control.encoder = "sample", eps)
        N  == 1 .. num_steps
    IN  [as_         |-> as_ \o [k \in N |-> ro[k].a],
         means       |-> means \o [k \in N |-> ro[k].mean],
         covariances |-> covariances \o [k \in N |-> ro[k].cov],
         filter_next_means       |-> filter_next_means \o [k \in N |-> ro[k].next_mean],
         filter_next_covariances |-> filter_next_covariances \o [k \in N |-> ro[k].next_cov],
         mat_As      |-> mat_As \o [k \in N |-> mat_As[Len(mat_As)]],
         mat_Cs      |-> mat_Cs \o [k \in N |-> mat_Cs[Len(mat_Cs)]]]

\* section 4.6: sum over t of log N(z[t+1]; A[t] z[t], Q)
state_transition_log_likelihood(zs, mat_As) ==
    SumSeq([t \in 1 .. (Len(zs) - 1) |->
              MvnLogProb(FMul(mat_As[t], zs[t]), mat_Q, zs[t + 1])])

(***************************************************************************)
(* KalmanVariationalAutoencoder (src/kalman_vae.py).                       *)
(***************************************************************************)
\* the values a caller may put in SampleControl.encoder / .decoder
Modes == {"sample", "mean", "median"}

SampleControls == [encoder : Modes, decoder : Modes]

\* the check of lines 97-110 without the test of self.training (line 100)
ElboEncoderAccepted_NoTrainingTest(sample_control, is_training) ==
    sample_control.encoder \in {"sample", "mean"}

\* elbo, lines 97-110: whether the encoder mode passes the check
ElboEncoderAccepted(sample_control, is_training) ==
    \/ sample_control.encoder = "sample"
    \/ sample_control.encoder = "mean" /\ ~is_training

\* elbo, lines 97-106: as_ from the encoder's distributions
ElboFeatures(as_distrib, sample_control, eps) ==
    IF sample_control.encoder = "sample"
    THEN [t \in 1 .. Len(as_distrib) |-> NormalSample(as_distrib[t], eps[t])]
    ELSE [t \in 1 .. Len(as_distrib) |-> as_distrib[t].mean]

\* elbo, lines 113-116: sum over time of ln p(x|a)
ReconstructionObj(xs, as_) ==
    SumSeq([t \in 1 .. Len(xs) |-> NormalLogProb(Decoder(as_[t]), xs[t])])

\* elbo, lines 120-122: - sum over time of ln q(a|x)
RegularizationObj(as_distrib, as_) ==
    -SumSeq([t \in 1 .. Len(as_) |-> NormalLogProb(as_distrib[t], as_[t])])

\* elbo, lines 162-171: the KL term, computed only for a non-zero weight
KlReg(kl_weight, as_distrib) ==
    IF kl_weight # 0
    THEN -SumSeq([t \in 1 .. Len(as_distrib) |-> NormalKl(as_distrib[t])])
    ELSE 0

\* line 136 with the mask's polarity inverted (1 taken as missing)
ElboFilterMask_Inverted(observation_mask) ==
    [t \in 1 .. Len(observation_mask) |-> 1 - observation_mask[t]]

\* line 136 left out: the filter is called without the caller's mask
ElboFilterMask_Dropped(observation_mask) == None

\* elbo, line 136: the mask handed to kalman_filter
ElboFilterMask(observation_mask) == observation_mask

\* lines 142-152 with the matrices computed again, from the filtered features
ElboSmoothArgs_Recomputed(f) ==
    [filter_means            |-> f.filter_means,
     filter_covariances      |-> f.filter_covariances,
     filter_next_means       |-> f.filter_next_means,
     filter_next_covariances |-> f.filter_next_covariances,
     mat_As                  |-> kalman_filter(f.filter_as, None).mat_As,
     mat_Cs                  |-> kalman_filter(f.filter_as, None).mat_Cs]

\* elbo, lines 142-152: what kalman_smooth is given from the filter's result
ElboSmoothArgs(f) ==
    [filter_means            |-> f.filter_means,
     filter_covariances      |-> f.filter_covariances,
     filter_next_means       |-> f.filter_next_means,
     filter_next_covariances |-> f.filter_next_covariances,
     mat_As                  |-> f.mat_As,
     mat_Cs                  |-> f.mat_Cs]

\* line 180 with the slice taken from the other end, mat_Cs[1:]
ObservationCs_Shifted(mat_Cs) == Tail(mat_Cs)

\* elbo, line 180: mat_Cs[:-1]
ObservationCs(mat_Cs) == SubSeq(mat_Cs, 1, Len(mat_Cs) - 1)

\* elbo, line 192: the matrices handed to state_transition_log_likelihood
TransitionAs(mat_As) == mat_As

\* lines 204-214 with the posterior term added instead of subtracted
Objective_PosteriorAdded(w, reconstruction_obj, regularization_obj, kl_reg, observation_ll, transition_ll, posterior_ll) ==
    FMul(w.reconst_weight, reconstruction_obj)
    + FMul(w.regularization_weight, regularization_obj)
    + FMul(w.kl_weight, kl_reg)
    + FMul(w.kalman_weight, observation_ll + transition_ll + posterior_ll)

\* elbo, lines 204-214
Objective(w, reconstruction_obj, regularization_obj, kl_reg, observation_ll, transition_ll, posterior_ll) ==
    FMul(w.reconst_weight, reconstruction_obj)
    + FMul(w.regularization_weight, regularization_obj)
    + FMul(w.kl_weight, kl_reg)
    + FMul(w.kalman_weight, observation_ll + transition_ll - posterior_ll)

\* elbo, lines 216-246: the info bundle returned beside the objective
ElboInfo(w, observation_mask, reconstruction_obj, regularization_obj, kl_reg, observation_ll, transition_ll, posterior_ll, f, sm, as_) ==
    [reconst_weight        |-> w.reconst_weight,
     regularization_weight |-> w.regularization_weight,
     kalman_weight         |-> w.kalman_weight,
     kl_weight             |-> w.kl_weight,
     reconstruction        |-> reconstruction_obj,
     regularization        |-> regularization_obj,
     kl                    |-> kl_reg,
     kalman_observation_log_likelihood      |-> observation_ll,
     kalman_state_transition_log_likelihood |-> transition_ll,
     kalman_posterior_log_likelihood        |-> posterior_ll,
     observation_mask        |-> observation_mask,
     filter_means            |-> f.filter_means,
     filter_covariances      |-> f.filter_covariances,
     filter_next_means       |-> f.filter_next_means,
     filter_next_covariances |-> f.filter_next_covariances,
     mat_As                  |-> f.mat_As,
     mat_Cs                  |-> f.mat_Cs,
     means                   |-> sm.means,
     covariances             |-> sm.covariances,
     as                      |-> as_,
     zs                      |-> sm.zs,
     filter_as               |-> f.filter_as,
     as_resampled            |-> sm.as_resampled]

\* what a call that raised leaves behind: the exception and the
\* collaborators invoked before it
Raised(exception, calls, g) ==
    [status |-> exception, calls |-> calls, passed |-> <<>>, value |-> <<>>,
     info |-> <<>>, rng |-> g]

\* self.encoder(xs.reshape(...)): one distribution per timestep
EncoderDistrib(xs) == [t \in 1 .. Len(xs) |-> Encoder(xs[t])]

\* elbo, lines 204-246: the objective and the bundle, from the six terms
ElboReturn(w, observation_mask, as_, f, sargs, sm, zs_sample, Cs, As, reconstruction_obj, regularization_obj, kl_reg, observation_ll, transition_ll, posterior_ll, g) ==
    [status |-> "ok",
     calls  |-> <<"encoder", "decoder", "kalman_filter", "kalman_smooth",
                  "state_transition_log_likelihood">>,
     passed |-> [filter_out  |-> f,
                 smooth_in   |-> sargs,
                 observation |-> [C |-> Cs, z |-> zs_sample, a |-> as_],
                 transition  |-> [A |-> As, z |-> zs_sample],
                 posterior   |-> [z |-> zs_sample, means |-> sm.means,
                                  covariances |-> sm.covariances]],
     value  |-> Objective(w, reconstruction_obj, regularization_obj, kl_reg,
                          observation_ll, transition_ll, posterior_ll),
     info   |-> ElboInfo(w, observation_mask, reconstruction_obj,
                         regularization_obj, kl_reg, observation_ll,
                         transition_ll, posterior_ll, f, sm, as_),
     rng    |-> g]

\* elbo, lines 178-202: the three Kalman log-likelihood terms on zs_sample;
\* the product mat_Cs[:-1] @ zs_sample needs one matrix per sampled state
ElboTerms(xs, w, observation_mask, as_, f, sargs, sm, zs_sample, Cs, As, g) ==
    IF Len(Cs) # Len(zs_sample)
    THEN Raised("RuntimeError",
                <<"encoder", "decoder", "kalman_filter", "kalman_smooth">>, g)
    ELSE ElboReturn(w, observation_mask, as_, f, sargs, sm, zs_sample, Cs, As,
             ReconstructionObj(xs, as_),
             RegularizationObj(EncoderDistrib(xs), as_),
             KlReg(w.kl_weight, EncoderDistrib(xs)),
             SumSeq([t \in 1 .. Len(xs) |->
                       MvnLogProb(FMul(Cs[t], zs_sample[t]), mat_R, as_[t])]),
             state_transition_log_likelihood(zs_sample, As),
             SumSeq([t \in 1 .. Len(xs) |->
                       MvnLogProb(sm.means[t], sm.covariances[t], zs_sample[t])]),
             g)

\* elbo, lines 157-176: zs_sample = zs_distrib.rsample(), one draw per
\* timestep from MultivariateNormal(means[t], covariances[t])
ElboSample(xs, w, observation_mask, as_, f, sargs, sm, g) ==
    ElboTerms(xs, w, observation_mask, as_, f, sargs, sm,
              [t \in 1 .. Len(xs) |->
                 MvnSample(sm.means[t], sm.covariances[t],
                           NormalDraws(g, Len(xs))[t])],
              ObservationCs(f.mat_Cs), TransitionAs(f.mat_As),
              RngAfter(g, Len(xs)))

\* elbo, lines 141-152: the smoother, given its arguments sargs
ElboSmooth(xs, w, observation_mask, as_, f, sargs, g) ==
    ElboSample(xs, w, observation_mask, as_, f, sargs,
               kalman_smooth(as_, sargs, NormalDraws(g, Len(xs))),
               RngAfter(g, Len(xs)))

\* elbo, lines 141-152: the smoother's arguments, given the filter's result f
ElboFilter(xs, w, observation_mask, as_, f, g) ==
    ElboSmooth(xs, w, observation_mask, as_, f, ElboSmoothArgs(f), g)

\* the number of draws rsample()/sample() of the encoder takes
EncoderDraws(xs, sample_control) ==
    IF sample_control.encoder = "sample" THEN Len(xs) ELSE 0

\* elbo, lines 112-140, given the features as_
ElboStart(xs, w, observation_mask, as_, g) ==
    ElboFilter(xs, w, observation_mask, as_,
               kalman_filter(as_, ElboFilterMask(observation_mask)), g)

\* KalmanVariationalAutoencoder.elbo, lines 80-246, called in generator
\* state g with the module's training flag is_training.  The result records
\* the collaborators invoked, in order (calls), and what the smoother and
\* the likelihood terms were handed (passed).
elbo(xs, sample_control, observation_mask, w, is_training, g) ==
    IF ~ElboEncoderAccepted(sample_control, is_training)
    THEN Raised("ValueError", <<"encoder">>, g)
    ELSE ElboStart(xs, w, observation_mask,
             ElboFeatures(EncoderDistrib(xs), sample_control,
                          NormalDraws(g, EncoderDraws(xs, sample_control))),
             RngAfter(g, EncoderDraws(xs, sample_control)))

\* predict_future, lines 262-269: whether the encoder mode passes the check
PredictEncoderAccepted(sample_control, is_training) ==
    sample_control.encoder \in {"sample", "mean"}

\* predict_future, lines 321-328: whether the decoder mode passes the check
PredictDecoderAccepted(sample_control) ==
    sample_control.decoder \in {"sample", "mean"}

\* predict_future, lines 287-296: what kalman_smooth is given
PredictSmoothArgs(f) ==
    [filter_means            |-> f.filter_means,
     filter_covariances      |-> f.filter_covariances,
     filter_next_means       |-> f.filter_next_means,
     filter_next_covariances |-> f.filter_next_covariances,
     mat_As                  |-> f.mat_As,
     mat_Cs                  |-> f.mat_Cs]

\* lines 306-316 with the filtered moments passed in place of the smoothed
PredictFutureArgs_Filtered(as_, f, sm) ==
    [as_                     |-> as_,
     means                   |-> f.filter_means,
     covariances             |-> f.filter_covariances,
     filter_next_means       |-> f.filter_next_means,
     filter_next_covariances |-> f.filter_next_covariances,
     mat_As                  |-> f.mat_As,
     mat_Cs                  |-> f.mat_Cs]

\* predict_future, lines 306-316: what state_space_model.predict_future is
\* given from the encoder (as_), the filter (f) and the smoother (sm)
PredictFutureArgs(as_, f, sm) ==
    [as_                     |-> as_,
     means                   |-> sm.means,
     covariances             |-> sm.covariances,
     filter_next_means       |-> f.filter_next_means,
     filter_next_covariances |-> f.filter_next_covariances,
     mat_As                  |-> f.mat_As,
     mat_Cs                  |-> f.mat_Cs]

\* predict_future, lines 319-330: the decoded images of the extended features
PredictImages(as_, sample_control, eps) ==
    IF sample_control.decoder = "sample"
    THEN [t \in 1 .. Len(as_) |-> NormalSample(Decoder(as_[t]), eps[t])]
    ELSE [t \in 1 .. Len(as_) |-> Decoder(as_[t]).mean]

\* predict_future, lines 332-344: the info bundle returned beside the images
PredictInfo(p, f, sm) ==
    [as                      |-> p.as_,
     means                   |-> p.means,
     covariances             |-> p.covariances,
     filter_means            |-> f.filter_means,
     filter_covariances      |-> f.filter_covariances,
     filter_next_means       |-> p.filter_next_means,
     filter_next_covariances |-> p.filter_next_covariances,
     mat_As                  |-> p.mat_As,
     mat_Cs                  |-> p.mat_Cs,
     as_filter               |-> f.filter_as,
     as_resampled            |-> sm.as_resampled]

\* the number of draws xs_distrib.sample() takes for n images
DecoderDraws(n, sample_control) ==
    IF sample_control.decoder = "sample" THEN n ELSE 0

\* predict_future, lines 319-344: decoding, given the extended trajectories p
PredictDecode(sample_control, f, sargs, sm, pargs, p, g) ==
    IF ~PredictDecoderAccepted(sample_control)
    THEN Raised("ValueError",
                <<"encoder", "kalman_filter", "kalman_smooth", "predict_future",
                  "decoder">>, g)
    ELSE [status |-> "ok",
          calls  |-> <<"encoder", "kalman_filter", "kalman_smooth",
                       "predict_future", "decoder">>,
          passed |-> [filter_out |-> f, smooth_in |-> sargs,
                      smooth_out |-> sm, predict_in |-> pargs],
          value  |-> PredictImages(p.as_, sample_control,
                         NormalDraws(g, DecoderDraws(Len(p.as_), sample_control))),
          info   |-> PredictInfo(p, f, sm),
          rng    |-> RngAfter(g, DecoderDraws(Len(p.as_), sample_control))]

\* predict_future, lines 298-316: the forecast, given what it is handed
PredictExtend(num_steps, sample_control, f, sargs, sm, pargs, g) ==
    PredictDecode(sample_control, f, sargs, sm, pargs,
        ssm_predict_future(pargs.as_, pargs.means, pargs.covariances,
            pargs.filter_next_means, pargs.filter_next_covariances,
            pargs.mat_As, pargs.mat_Cs, num_steps, sample_control,
            NormalDraws(g, num_steps)),
        RngAfter(g, IF sample_control.encoder = "sample" THEN num_steps ELSE 0))

\* predict_future, lines 298-316: the forecast's arguments, given the smoother's result sm
PredictSmooth(num_steps, sample_control, as_, f, sargs, sm, g) ==
    PredictExtend(num_steps, sample_control, f, sargs, sm,
                  PredictFutureArgs(as_, f, sm), g)

\* predict_future, lines 286-296: the smoother, given the filter's result f
PredictFilter(num_steps, sample_control, as_, f, sargs, g) ==
    PredictSmooth(num_steps, sample_control, as_, f, sargs,
                  kalman_smooth(as_, sargs, NormalDraws(g, Len(as_))),
                  RngAfter(g, Len(as_)))

\* predict_future, lines 271-285: the filter (no mask), given the features
PredictEncode(num_steps, sample_control, as_, f, g) ==
    PredictFilter(num_steps, sample_control, as_, f, PredictSmoothArgs(f), g)

\* predict_future, lines 262-265: as_ from the encoder's distributions
PredictFeatures(as_distrib, sample_control, eps) ==
    IF sample_control.encoder = "sample"
    THEN [t \in 1 .. Len(as_distrib) |-> NormalSample(as_distrib[t], eps[t])]
    ELSE [t \in 1 .. Len(as_distrib) |-> as_distrib[t].mean]

\* predict_future, lines 260-285, given the features as_
PredictStart(num_steps, sample_control, as_, g) ==
    PredictEncode(num_steps, sample_control, as_, kalman_filter(as_, None), g)

\* KalmanVariationalAutoencoder.predict_future, lines 248-344
predict_future(xs, num_steps, sample_control, is_training, g) ==
    IF ~PredictEncoderAccepted(sample_control, is_training)
    THEN Raised("ValueError", <<"encoder">>, g)
    ELSE PredictStart(num_steps, sample_control,
             PredictFeatures(EncoderDistrib(xs), sample_control,
                             NormalDraws(g, EncoderDraws(xs, sample_control))),
             RngAfter(g, EncoderDraws(xs, sample_control)))

(***************************************************************************)
(* The program state: the module's training flag, torch's global generator *)
(* (rng) and the call in progress.  seed is <<s>> from torch.manual_seed(s)*)
(* until the next call of the facade, None otherwise.  last is the call    *)
(* that has returned and whose result the caller holds; prev is an earlier *)
(* call, kept by a caller that compares two calls.                         *)
(***************************************************************************)
\* get_distribution_params, lines 46-53: the names the result of
\* kalman_filter is unpacked into
ParamsFilterTargets ==
    <<"filter_means", "filter_covariances", "filter_next_means",
      "filter_next_covariances", "mat_As", "mat_Cs">>

\* get_distribution_params, line 58: the names the result of kalman_smooth
\* is unpacked into
ParamsSmoothTargets == <<"means", "covariances">>

\* Python's tuple unpacking: one target per component, else ValueError
Unpacks(targets, result) == Len(targets) = Cardinality(DOMAIN result)

\* get_distribution_params, lines 58-67: what kalman_smooth is given
ParamsSmoothArgs(f) ==
    [filter_means            |-> f.filter_means,
     filter_covariances      |-> f.filter_covariances,
     filter_next_means       |-> f.filter_next_means,
     filter_next_covariances |-> f.filter_next_covariances,
     mat_As                  |-> f.mat_As,
     mat_Cs                  |-> f.mat_Cs]

\* get_distribution_params, lines 69-78: the eight entries returned
ParamsInfo(f, sm) ==
    [filter_means            |-> f.filter_means,
     filter_covariances      |-> f.filter_covariances,
     filter_next_means       |-> f.filter_next_means,
     filter_next_covariances |-> f.filter_next_covariances,
     mat_As                  |-> f.mat_As,
     mat_Cs                  |-> f.mat_Cs,
     means                   |-> sm.means,
     covariances             |-> sm.covariances]

\* get_distribution_params, lines 58-78, given the smoother's result sm
ParamsSmooth(f, sm, g) ==
    IF ~Unpacks(ParamsSmoothTargets, sm)
    THEN Raised("ValueError", <<"encoder", "kalman_filter", "kalman_smooth">>, g)
    ELSE [status |-> "ok",
          calls  |-> <<"encoder", "kalman_filter", "kalman_smooth">>,
          passed |-> <<>>, value |-> <<>>, info |-> ParamsInfo(f, sm),
          rng    |-> g]

\* get_distribution_params, lines 46-67, given the filter's result f
ParamsFilter(as_sample, f, g) ==
    IF ~Unpacks(ParamsFilterTargets, f)
    THEN Raised("ValueError", <<"encoder", "kalman_filter">>, g)
    ELSE ParamsSmooth(f, kalman_smooth(as_sample, ParamsSmoothArgs(f),
                                       NormalDraws(g, Len(as_sample))),
                      RngAfter(g, Len(as_sample)))

\* KalmanVariationalAutoencoder.get_distribution_params, lines 36-78,
\* called in generator state g: the features are always sampled (line 43)
\* and the filter is called without a mask
get_distribution_params(xs, g) ==
    ParamsFilter([t \in 1 .. Len(xs) |->
                    NormalSample(EncoderDistrib(xs)[t], NormalDraws(g, Len(xs))[t])],
                 kalman_filter([t \in 1 .. Len(xs) |->
                                  NormalSample(EncoderDistrib(xs)[t],
                                               NormalDraws(g, Len(xs))[t])],
                               None),
                 RngAfter(g, Len(xs)))

(***************************************************************************)
(* The evaluation harness (kvae/evaluation.py).  A mask of shape           *)
(* (seq_length, batch_size) is a sequence over time of sequences over the  *)
(* batch: mask[t][b], index t for timestep t - 1.                          *)
(***************************************************************************)
MaxEvalSeq == 3

MaxBatch == 2

\* torch.rand in generator state g: a value in [0, 1)
UniformAt(g) == (g * One) \div RngPeriod

\* create_continuous_mask, line 23, with the run started at index 0
StartIndex_AtZero(seq_length, mask_length) == 0

\* create_continuous_mask, line 23
StartIndex(seq_length, mask_length) == (seq_length - mask_length) \div 2

\* create_continuous_mask, line 24: range(start_index, start_index + mask_length)
ZeroedIndices(seq_length, mask_length) ==
    StartIndex(seq_length, mask_length)
      .. (StartIndex(seq_length, mask_length) + mask_length - 1)

\* create_continuous_mask, lines 22-25: lst after the loop, 0-based; a
\* negative index counts from the end of the list
ContinuousList(seq_length, mask_length) ==
    [j \in 0 .. (seq_length - 1) |->
       IF \E i \in ZeroedIndices(seq_length, mask_length) :
            i = j \/ i + seq_length = j
       THEN 0 ELSE 1]

\* create_continuous_mask, lines 21-31; lst[i] = 0.0 raises IndexError for
\* an index outside -seq_length .. seq_length - 1
create_continuous_mask(seq_length, mask_length, batch_size) ==
    IF \E i \in ZeroedIndices(seq_length, mask_length) :
         i >= seq_length \/ i < -seq_length
    THEN [status |-> "IndexError", value |-> <<>>]
    ELSE [status |-> "ok",
          value  |-> [t \in 1 .. seq_length |->
                        [b \in 1 .. batch_size |->
                           ContinuousList(seq_length, mask_length)[t - 1]]]]

\* create_random_mask, lines 35-37: torch.rand(...) >= mask_rate, the
\* entries drawn in row-major order from generator state g
RandomEntries(seq_length, batch_size, mask_rate, g) ==
    [t \in 1 .. seq_length |->
       [b \in 1 .. batch_size |->
          IF UniformAt((g + (t - 1) * batch_size + (b - 1)) % RngPeriod) >= mask_rate
          THEN 1 ELSE 0]]

\* create_random_mask, lines 34-41: mask[0] = 1 and mask[-1] = 1
create_random_mask(seq_length, batch_size, mask_rate, g) ==
    [status |-> "ok",
     value  |-> [t \in 1 .. seq_length |->
                   IF t = 1 \/ t = seq_length
                   THEN [b \in 1 .. batch_size |-> 1]
                   ELSE RandomEntries(seq_length, batch_size, mask_rate, g)[t]],
     rng    |-> RngAfter(g, seq_length * batch_size)]

\* evaluate_random_masking, line 101
DropoutProbabilities == [k \in 1 .. 11 |-> ((k - 1) * One) \div 10]

\* log_continuous_masking_video, line 226
VideoMaskLengths == {10, 20, 30, 40}

\* calculate_fraction_of_incorrect_pixels, line 277:
\* image != (reconstructed_image > 0.5), per timestep and batch element
Incorrect(image, reconstructed_image) ==
    [t \in 1 .. Len(image) |->
       [b \in 1 .. Len(image[t]) |->
          IF image[t][b] # (IF reconstructed_image[t][b] > One \div 2 THEN One ELSE 0)
          THEN 1 ELSE 0]]

\* tensor.sum() of a (time, batch) tensor
SumAll(m) == SumSeq([t \in 1 .. Len(m) |-> SumSeq(m[t])])

\* line 285: incorrect * (1.0 - observation_mask)
MaskedIncorrect(image, reconstructed_image, observation_mask) ==
    [t \in 1 .. Len(image) |->
       [b \in 1 .. Len(image[t]) |->
          Incorrect(image, reconstructed_image)[t][b] * (1 - observation_mask[t][b])]]

\* line 286: 1.0 - observation_mask
Unobserved(observation_mask) ==
    [t \in 1 .. Len(observation_mask) |->
       [b \in 1 .. Len(observation_mask[t]) |-> 1 - observation_mask[t][b]]]

\* line 286: a / b of two float tensors; 0 / 0 is nan, no exception
TorchDiv(a, b) ==
    [nan |-> b = 0, value |-> IF b = 0 THEN None ELSE FDiv(a * One, b * One)]

\* calculate_fraction_of_incorrect_pixels, lines 272-286 (one pixel per
\* image, so the repeat over the pixels of line 282 is the identity)
calculate_fraction_of_incorrect_pixels(image, reconstructed_image, observation_mask) ==
    TorchDiv(SumAll(MaskedIncorrect(image, reconstructed_image, observation_mask)),
             SumAll(Unobserved(observation_mask)))

VARIABLES training, rng, seed, pc, last, prev

vars == <<training, rng, seed, pc, last, prev>>

NoCall == [fn |-> "none"]

Weights == {[reconst_weight |-> (3 * One) \div 10, regularization_weight |-> One, kalman_weight |-> One, kl_weight |-> 0], [reconst_weight |-> One, regularization_weight |-> One \div 2, kalman_weight |-> 2 * One, kl_weight |-> One]}

SeqLengths == 1 .. MaxSeq

Images(T) == [1 .. T -> Pixels]

Masks(T) == {None} \cup [1 .. T -> {0, 1}]

\* nn.Module starts in training state (line 23); the generator may be in any state
Init ==
    /\ training = TRUE
    /\ rng \in RngStates
    /\ seed = None
    /\ pc = "idle"
    /\ last = NoCall
    /\ prev = NoCall

\* nn.Module.train()
Train ==
    /\ pc = "idle"
    /\ ~training
    /\ training' = TRUE
    /\ UNCHANGED <<rng, seed, pc, last, prev>>

\* nn.Module.eval() (evaluation.py line 298)
Eval ==
    /\ pc = "idle"
    /\ training
    /\ training' = FALSE
    /\ UNCHANGED <<rng, seed, pc, last, prev>>

\* the record the caller holds of a call: its arguments, the state it was
\* made in, and what it returned or raised (r)
Called(fn, xs, num_steps, sample_control, observation_mask, w, is_training, g, sd, r) ==
    [fn |-> fn, xs |-> xs, num_steps |-> num_steps,
     sample_control |-> sample_control, observation_mask |-> observation_mask,
     w |-> w, training |-> is_training, rng0 |-> g, seed |-> sd,
     status |-> r.status, calls |-> r.calls, passed |-> r.passed,
     value |-> r.value, info |-> r.info, rng1 |-> r.rng]

\* a call of elbo
Elbo(xs, sample_control, observation_mask, w) ==
    /\ pc = "idle"
    /\ last' = Called("elbo", xs, 0, sample_control, observation_mask, w,
                      training, rng, seed,
                      elbo(xs, sample_control, observation_mask, w, training, rng))
    /\ rng' = last'.rng1
    /\ seed' = None
    /\ pc' = "returned"
    /\ UNCHANGED <<training, prev>>

\* a call of predict_future
PredictFuture(xs, num_steps, sample_control) ==
    /\ pc = "idle"
    /\ last' = Called("predict_future", xs, num_steps, sample_control, None, None,
                      training, rng, seed,
                      predict_future(xs, num_steps, sample_control, training, rng))
    /\ rng' = last'.rng1
    /\ seed' = None
    /\ pc' = "returned"
    /\ UNCHANGED <<training, prev>>

\* a call of get_distribution_params
GetDistributionParams(xs) ==
    /\ pc = "idle"
    /\ last' = Called("get_distribution_params", xs, 0, None, None, None,
                      training, rng, seed, get_distribution_params(xs, rng))
    /\ rng' = last'.rng1
    /\ seed' = None
    /\ pc' = "returned"
    /\ UNCHANGED <<training, prev>>

\* the caller drops the result of the call
Discard ==
    /\ pc = "returned"
    /\ pc' = "idle"
    /\ last' = NoCall
    /\ UNCHANGED <<training, rng, seed, prev>>

\* torch.manual_seed(s)
ManualSeed(s) ==
    /\ pc = "idle"
    /\ rng' = s
    /\ seed' = <<s>>
    /\ UNCHANGED <<training, pc, last, prev>>

\* one draw from the global generator by other code, such as the
\* torch.rand of create_random_mask (evaluation.py line 35)
GlobalDraw ==
    /\ pc = "idle"
    /\ rng' = RngAfter(rng, 1)
    /\ UNCHANGED <<training, seed, pc, last, prev>>

\* the caller keeps the result of a call made right after seeding, to
\* compare it with a later one
Keep ==
    /\ pc = "returned"
    /\ last.seed # None
    /\ pc' = "idle"
    /\ prev' = last
    /\ last' = NoCall
    /\ UNCHANGED <<training, rng, seed>>

(***************************************************************************)
(* The evaluation harness: its mask builders called on their own and one   *)
(* run of evaluate_random_masking, iteration by iteration.                 *)
(***************************************************************************)
EvalLengths == 1 .. MaxEvalSeq

BatchSizes == 1 .. MaxBatch

MaskLengths == (0 .. (MaxEvalSeq + 1)) \cup VideoMaskLengths

\* a call of create_continuous_mask
CreateContinuousMask(seq_length, mask_length, batch_size) ==
    /\ pc = "idle"
    /\ last' = [fn |-> "create_continuous_mask", seq_length |-> seq_length,
                mask_length |-> mask_length, batch_size |-> batch_size,
                status |-> create_continuous_mask(seq_length, mask_length, batch_size).status,
                value |-> create_continuous_mask(seq_length, mask_length, batch_size).value]
    /\ pc' = "returned"
    /\ UNCHANGED <<training, rng, seed, prev>>

\* a call of create_random_mask
CreateRandomMask(seq_length, batch_size, mask_rate) ==
    /\ pc = "idle"
    /\ last' = [fn |-> "create_random_mask", seq_length |-> seq_length,
                batch_size |-> batch_size, mask_rate |-> mask_rate, rng0 |-> rng,
                status |-> create_random_mask(seq_length, batch_size, mask_rate, rng).status,
                value |-> create_random_mask(seq_length, batch_size, mask_rate, rng).value]
    /\ rng' = RngAfter(rng, seq_length * batch_size)
    /\ seed' = None
    /\ pc' = "returned"
    /\ UNCHANGED <<training, prev>>

Next ==
    \/ Train
    \/ Eval
    \/ \E T \in SeqLengths : \E xs \in Images(T), m \in Masks(T) :
          \E sc \in SampleControls, w \in Weights : Elbo(xs, sc, m, w)
    \/ \E T \in SeqLengths : \E xs \in Images(T), n \in 0 .. MaxSteps :
          \E sc \in SampleControls : PredictFuture(xs, n, sc)
    \/ \E T \in SeqLengths : \E xs \in Images(T) : GetDistributionParams(xs)
    \/ Discard

Spec == Init /\ [][Next]_vars

(***************************************************************************)
(* Two calls compared: the evaluation harness's calls of elbo (default     *)
(* weights, evaluation.py lines 115-119 and 174-178) with the generator    *)
(* seeded by the caller and other code drawing from it in between.         *)
(***************************************************************************)
Seeds == {0, 1}

DefaultWeights == [reconst_weight |-> (3 * One) \div 10, regularization_weight |-> One, kalman_weight |-> One, kl_weight |-> 0]

SamplingControl == [encoder |-> "sample", decoder |-> "sample"]

AllOnes(T) == [t \in 1 .. T |-> 1]

NextRepro ==
    \/ \E s \in Seeds : ManualSeed(s)
    \/ GlobalDraw
    \/ \E T \in SeqLengths : \E xs \in Images(T), m \in {None, AllOnes(T)} :
          Elbo(xs, SamplingControl, m, DefaultWeights)
    \/ Keep
    \/ Discard

SpecRepro == Init /\ [][NextRepro]_vars

\* the sample controls the harness is run with
EvalControls == {SamplingControl, [encoder |-> "mean", decoder |-> "mean"]}

\* a batch of one sequence as a (time, batch) tensor
AsBatch(xs) == [t \in 1 .. Len(xs) |-> <<xs[t]>>]

\* the column of a (time, batch) tensor
Column(m, b) == [t \in 1 .. Len(m) |-> m[t][b]]

\* evaluate_random_masking, lines 120-122 and 130-132: kvae.decoder(as).mean
DecodedMeans(as_) == [t \in 1 .. Len(as_) |-> <<Decoder(as_[t]).mean>>]

\* evaluate_random_masking, lines 120-140, given the mask m and the result
\* r of elbo: the two fractions of the iteration
EvalFractions(xs, m, r) ==
    IF r.status # "ok"
    THEN [status |-> r.status, mask |-> m.value, filtering |-> None,
          smoothing |-> None, rng |-> r.rng]
    ELSE [status    |-> "ok",
          mask      |-> m.value,
          filtering |-> calculate_fraction_of_incorrect_pixels(
                            AsBatch(xs), DecodedMeans(r.info.filter_as), m.value),
          smoothing |-> calculate_fraction_of_incorrect_pixels(
                            AsBatch(xs), DecodedMeans(r.info.as_resampled), m.value),
          rng       |-> r.rng]

\* evaluate_random_masking, lines 115-119: elbo on the batch under the mask m
EvalMasked(xs, sample_control, is_training, m) ==
    EvalFractions(xs, m, elbo(xs, sample_control, Column(m.value, 1),
                              DefaultWeights, is_training, m.rng))

\* evaluate_random_masking, lines 104-140: one iteration of the loop
EvalIteration(xs, sample_control, mask_rate, is_training, g) ==
    EvalMasked(xs, sample_control, is_training,
               create_random_mask(Len(xs), 1, mask_rate, g))

\* the run after the iteration it: stopped by an exception of elbo,
\* returned after the last dropout probability, or at the next one
Iterated(run, it) ==
    [fn |-> run.fn, xs |-> run.xs, sample_control |-> run.sample_control,
     k |-> run.k + 1,
     status |-> IF it.status # "ok" THEN it.status
                ELSE IF run.k = Len(DropoutProbabilities) THEN "ok" ELSE "running",
     masks |-> Append(run.masks, it.mask),
     filtering |-> IF it.status = "ok" THEN Append(run.filtering, it.filtering)
                   ELSE run.filtering,
     smoothing |-> IF it.status = "ok" THEN Append(run.smoothing, it.smoothing)
                   ELSE run.smoothing,
     rng1 |-> it.rng]

\* evaluate_random_masking is called: lines 101-103 (the dataloader hands
\* out the batch xs at every iteration)
EvaluateRandomMasking(xs, sample_control) ==
    /\ pc = "idle"
    /\ last' = [fn |-> "evaluate_random_masking", xs |-> xs,
                sample_control |-> sample_control, k |-> 1, status |-> "running",
                masks |-> <<>>, filtering |-> <<>>, smoothing |-> <<>>,
                rng1 |-> rng]
    /\ pc' = "evaluating"
    /\ UNCHANGED <<training, rng, seed, prev>>

\* one iteration of the loop of evaluate_random_masking, lines 104-140
EvaluateStep ==
    /\ pc = "evaluating"
    /\ last' = Iterated(last, EvalIteration(last.xs, last.sample_control,
                                            DropoutProbabilities[last.k],
                                            training, rng))
    /\ rng' = last'.rng1
    /\ seed' = None
    /\ pc' = IF last'.status = "running" THEN "evaluating" ELSE "returned"
    /\ UNCHANGED <<training, prev>>

NextHarness ==
    \/ Train
    \/ Eval
    \/ \E n \in EvalLengths, m \in MaskLengths, b \in BatchSizes :
          CreateContinuousMask(n, m, b)
    \/ \E n \in EvalLengths, b \in BatchSizes :
          \E k \in DOMAIN DropoutProbabilities :
             CreateRandomMask(n, b, DropoutProbabilities[k])
    \/ \E T \in EvalLengths : \E xs \in Images(T), sc \in EvalControls :
          EvaluateRandomMasking(xs, sc)
    \/ EvaluateStep
    \/ Discard

SpecHarness == Init /\ [][NextHarness]_vars

(***************************************************************************)
(* Properties.                                                             *)
(***************************************************************************)
Range(q) == {q[i] : i \in 1 .. Len(q)}

Returned(fn) == pc = "returned" /\ last.fn = fn

\* the recursions of the state-space model
Recursions == {"kalman_filter", "kalman_smooth", "predict_future"}

\* C1: a call of elbo whose sample_control.encoder is neither "sample" nor
\* "mean", or is "mean" while the module is in training state, raises
\* ValueError before kalman_filter (or any other recursion) is invoked, and
\* returns no bundle.
C1_ElboInvalidConfigFailsFast ==
    (Returned("elbo")
       /\ (\/ last.sample_control.encoder \notin {"sample", "mean"}
           \/ last.sample_control.encoder = "mean" /\ last.training))
    => /\ last.status = "ValueError"
       /\ Range(last.calls) \cap Recursions = {}
       /\ DOMAIN last.info = {}

C1_Witness ==
    /\ Returned("elbo")
    /\ last.sample_control.encoder = "mean"
    /\ last.training
    /\ last.status = "ValueError"

\* C2: a call of predict_future with an unknown encoder mode, an unknown
\* decoder mode, or encoder mean-mode in training state raises before
\* kalman_filter, kalman_smooth or predict_future is invoked.
C2_PredictInvalidConfigFailsFast ==
    (Returned("predict_future")
       /\ (\/ last.sample_control.encoder \notin {"sample", "mean"}
           \/ last.sample_control.decoder \notin {"sample", "mean"}
           \/ last.sample_control.encoder = "mean" /\ last.training))
    => /\ last.status # "ok"
       /\ Range(last.calls) \cap Recursions = {}

\* the keys evaluation.write_trajectory_video reads from elbo's bundle
\* (evaluation.py lines 307, 315, 374-418)
VideoKeys == {"as", "filter_as", "as_resampled", "weights"}

\* the bundle of spec.md section 6
BundleKeys ==
    {"filter_means", "filter_covariances", "filter_next_means",
     "filter_next_covariances", "means", "covariances", "mat_As", "mat_Cs",
     "zs", "as_resampled", "kalman_observation_log_likelihood",
     "kalman_state_transition_log_likelihood",
     "kalman_posterior_log_likelihood", "weights"}

\* C3: every successful call of elbo returns the full bundle, mixture
\* weights included, and every key write_trajectory_video reads is in it.
C3_ElboBundleComplete ==
    (Returned("elbo") /\ last.status = "ok")
    => (BundleKeys \cup VideoKeys) \subseteq DOMAIN last.info

CountOf(q, x) == Cardinality({i \in 1 .. Len(q) : q[i] = x})

Succeeded(fn) == Returned(fn) /\ last.status = "ok"

\* C4: within one call of elbo or predict_future the per-step matrices
\* come from the single kalman_filter call, and those same sequences are
\* what kalman_smooth, state_space_model.predict_future and the
\* log-likelihood terms are given and what the bundle reports.
C4_MatricesFromTheOneFilterCall ==
    /\ (pc = "returned" /\ last.status = "ok")
       => /\ CountOf(last.calls, "kalman_filter") = 1
          /\ last.passed.smooth_in.mat_As = last.passed.filter_out.mat_As
          /\ last.passed.smooth_in.mat_Cs = last.passed.filter_out.mat_Cs
    /\ Succeeded("elbo")
       => /\ last.passed.transition.A = last.passed.filter_out.mat_As
          /\ last.passed.observation.C
               = SubSeq(last.passed.filter_out.mat_Cs, 1, Len(last.xs))
          /\ last.info.mat_As = last.passed.filter_out.mat_As
          /\ last.info.mat_Cs = last.passed.filter_out.mat_Cs
    /\ Succeeded("predict_future")
       => /\ last.passed.predict_in.mat_As = last.passed.filter_out.mat_As
          /\ last.passed.predict_in.mat_Cs = last.passed.filter_out.mat_Cs
          /\ SubSeq(last.info.mat_As, 1, Len(last.xs) + 1)
               = last.passed.filter_out.mat_As
          /\ SubSeq(last.info.mat_Cs, 1, Len(last.xs) + 1)
               = last.passed.filter_out.mat_Cs

\* an elbo call whose matrices differ from step to step
C4_Witness ==
    /\ Succeeded("elbo")
    /\ Len(last.xs) >= 2
    /\ last.passed.filter_out.mat_As[1] # last.passed.filter_out.mat_As[2]
    /\ last.passed.smooth_in.mat_As = last.passed.filter_out.mat_As

C6_ObjectiveIsTheWeightedSum ==
    Succeeded("elbo")
    => LET i == last.info
           kalman == i.kalman_observation_log_likelihood
                     + i.kalman_state_transition_log_likelihood
                     - i.kalman_posterior_log_likelihood
           rest == FMul(last.w.reconst_weight, i.reconstruction)
                   + FMul(last.w.regularization_weight, i.regularization)
                   + FMul(last.w.kalman_weight, kalman)
       IN  /\ last.value = rest + FMul(last.w.kl_weight, i.kl)
           /\ last.w.kl_weight = 0 => last.value = rest /\ i.kl = 0

\* an elbo call with kl_weight = 0 and a non-zero posterior term
C6_Witness ==
    /\ Succeeded("elbo")
    /\ last.w.kl_weight = 0
    /\ last.info.kalman_posterior_log_likelihood # 0
    /\ last.info.kalman_observation_log_likelihood # 0

\* two calls of elbo on the same input, in the same generator state, the
\* first without a mask and the second with the all-ones mask
MaskDefaultPair ==
    /\ prev.fn = "elbo" /\ Returned("elbo")
    /\ prev.status = "ok" /\ last.status = "ok"
    /\ prev.xs = last.xs
    /\ prev.sample_control = last.sample_control
    /\ prev.w = last.w
    /\ prev.training = last.training
    /\ prev.rng0 = last.rng0
    /\ prev.observation_mask = None
    /\ last.observation_mask = AllOnes(Len(last.xs))

\* C7 as claimed: elbo without a mask and elbo with the all-ones mask, on
\* the same input and the same random draws, return identical outputs, for
\* every returned quantity.
C7_MaskDefaultIdenticalOutputs ==
    MaskDefaultPair => prev.value = last.value /\ prev.info = last.info

\* C7 as amended: the objective and every entry of the bundle are
\* identical, except the entry "observation_mask", which echoes the
\* caller's argument (None in one call, the all-ones mask in the other).
C7_MaskDefaultIdenticalButEcho ==
    MaskDefaultPair
    => /\ prev.value = last.value
       /\ DOMAIN prev.info = DOMAIN last.info
       /\ \A k \in DOMAIN last.info \ {"observation_mask"} :
            prev.info[k] = last.info[k]
       /\ prev.info.observation_mask = None
       /\ last.info.observation_mask = AllOnes(Len(last.xs))

C7_Witness ==
    /\ MaskDefaultPair
    /\ Len(last.xs) >= 2
    /\ last.info.filter_means # last.info.filter_next_means

\* the prior of step t of the call's filter: the initial prior, then the
\* prediction made at step t - 1
PriorMean(i, t) == IF t = 1 THEN initial_state_mean ELSE i.filter_next_means[t - 1]

PriorCov(i, t) == IF t = 1 THEN initial_state_covariance ELSE i.filter_next_covariances[t - 1]

\* the gain of step t: Sigma_pred C^T (C Sigma_pred C^T + R)^-1
Gain(i, t) ==
    FDiv(FMul(PriorCov(i, t), i.mat_Cs[t]),
         FMul(FMul(i.mat_Cs[t], PriorCov(i, t)), i.mat_Cs[t]) + mat_R)

\* the features of the call with those of the masked steps replaced by x
Blanked(c, x) ==
    [t \in 1 .. Len(c.xs) |->
       IF EffectiveMask(c.observation_mask, Len(c.xs))[t] = 0 THEN x
       ELSE c.info.as[t]]

\* C8: in the filter of an elbo call, at every step t with mask[t] = 0 the
\* filtered estimate is the predicted one (no update, no dependence on
\* a[t]); at every step with mask[t] = 1 the gain update is applied; and
\* at every step the next prediction is A[t] mu_filt[t],
\* A[t] Sigma_filt[t] A[t]^T + Q.
C8_MaskedStepCarriesThePrior ==
    Succeeded("elbo")
    => LET i == last.info
           T == Len(last.xs)
           m == EffectiveMask(last.observation_mask, T)
       IN  /\ \A t \in 1 .. T :
                /\ m[t] = 0 => /\ i.filter_means[t] = PriorMean(i, t)
                               /\ i.filter_covariances[t] = PriorCov(i, t)
                /\ m[t] = 1 => /\ i.filter_means[t]
                                    = PriorMean(i, t)
                                      + FMul(Gain(i, t),
                                             i.as[t] - FMul(i.mat_Cs[t], PriorMean(i, t)))
                               /\ i.filter_covariances[t]
                                    = Symmetrize(FMul(One - FMul(Gain(i, t), i.mat_Cs[t]),
                                                      PriorCov(i, t)))
                /\ i.filter_next_means[t] = FMul(i.mat_As[t], i.filter_means[t])
                /\ i.filter_next_covariances[t]
                     = Symmetrize(FMul(FMul(i.mat_As[t], i.filter_covariances[t]),
                                       i.mat_As[t]) + mat_Q)
           /\ \A x \in {-One, 2 * One} :
                kalman_filter(Blanked(last, x), last.observation_mask).filter_means
                  = i.filter_means

\* an elbo call with a masked step, not the last one, at which the update
\* would have moved the estimate and the covariance
C8_Witness ==
    /\ Succeeded("elbo")
    /\ \E t \in 1 .. (Len(last.xs) - 1) :
         /\ last.observation_mask # None
         /\ last.observation_mask[t] = 0
         /\ last.info.filter_means[t] = PriorMean(last.info, t)
         /\ FMul(Gain(last.info, t),
                 last.info.as[t] - FMul(last.info.mat_Cs[t], PriorMean(last.info, t))) # 0
         /\ last.info.filter_next_covariances[t] > last.info.filter_covariances[t]

\* C9: predict_future(num_steps = n) returns T + n images and trajectories
\* of length T + n whose first T steps are the encoder's features and the
\* smoother's moments; with n = 0 they are returned unchanged.
C9_ForecastIsAppended ==
    Succeeded("predict_future")
    => LET i  == last.info
           T  == Len(last.xs)
           n  == last.num_steps
           sm == last.passed.smooth_out
       IN  /\ Len(last.value) = T + n
           /\ Len(i.as) = T + n
           /\ Len(i.means) = T + n
           /\ Len(i.covariances) = T + n
           /\ SubSeq(i.means, 1, T) = sm.means
           /\ SubSeq(i.covariances, 1, T) = sm.covariances
           /\ SubSeq(i.as, 1, T) = last.passed.predict_in.as_
           /\ SubSeq(i.filter_next_means, 1, T)
                = last.passed.filter_out.filter_next_means
           /\ i.as_resampled = sm.as_resampled
           /\ n = 0 => /\ i.means = sm.means
                       /\ i.covariances = sm.covariances
                       /\ i.as = last.passed.predict_in.as_

\* a forecast of one step or more after a history on which smoothing
\* changed the filtered means
C9_Witness ==
    /\ Succeeded("predict_future")
    /\ last.num_steps >= 1
    /\ last.passed.smooth_out.means # last.info.filter_means
    /\ Len(last.info.means) = Len(last.xs) + last.num_steps

\* C10: two calls of elbo with the same input and parameters, each made
\* right after seeding the generator with the same seed, return identical
\* outputs whatever other code drew from the global generator in between.
C10_SameSeedSameOutputs ==
    (/\ prev.fn = "elbo" /\ Returned("elbo")
     /\ prev.status = "ok" /\ last.status = "ok"
     /\ prev.xs = last.xs
     /\ prev.sample_control = last.sample_control
     /\ prev.observation_mask = last.observation_mask
     /\ prev.w = last.w
     /\ prev.training = last.training
     /\ prev.seed # None /\ prev.seed = last.seed)
    => prev.value = last.value /\ prev.info = last.info

\* C11: the latent trajectory on which elbo evaluates the three
\* reparameterized likelihood terms is the one the smoother's backward
\* sampling pass drew, the one the bundle returns as "zs" and from which
\* "as_resampled" is computed.
C11_TermsOnTheSmootherSample ==
    Succeeded("elbo")
    => /\ last.passed.observation.z = last.info.zs
       /\ last.passed.transition.z = last.info.zs
       /\ last.passed.posterior.z = last.info.zs
       /\ last.info.as_resampled
            = [t \in 1 .. Len(last.xs) |->
                 FMul(last.info.mat_Cs[t], last.passed.observation.z[t])]

\* the eight entries of get_distribution_params
ParamsKeys ==
    {"filter_means", "filter_covariances", "filter_next_means",
     "filter_next_covariances", "mat_As", "mat_Cs", "means", "covariances"}

\* C12: every call site of the facade unpacks the seven-component result
\* of kalman_filter and the four-component result of kalman_smooth
\* without error: a call of elbo or predict_future with an accepted
\* configuration succeeds, and get_distribution_params completes and
\* returns its eight entries for any valid input.
C12_EveryCallSiteUnpacks ==
    /\ (Returned("elbo") /\ ElboEncoderAccepted(last.sample_control, last.training))
       => last.status = "ok"
    /\ (/\ Returned("predict_future")
        /\ PredictEncoderAccepted(last.sample_control, last.training)
        /\ PredictDecoderAccepted(last.sample_control))
       => last.status = "ok"
    /\ Returned("get_distribution_params")
       => last.status = "ok" /\ DOMAIN last.info = ParamsKeys

Binary(mask, seq_length, batch_size) ==
    /\ DOMAIN mask = 1 .. seq_length
    /\ \A t \in 1 .. seq_length :
         /\ DOMAIN mask[t] = 1 .. batch_size
         /\ \A b \in 1 .. batch_size : mask[t][b] \in {0, 1}

\* C13: every mask the harness builds is a 0/1 matrix of shape
\* (seq_length, batch_size); create_continuous_mask, for
\* 0 <= mask_length <= seq_length, has in every batch column exactly
\* mask_length zeros, in one run starting at index
\* (seq_length - mask_length) // 2; create_random_mask marks the first and
\* the last timestep as observed for every mask_rate.
C13_MasksBinaryAndWellPlaced ==
    /\ Returned("create_continuous_mask")
       => /\ last.status = "ok"
             => Binary(last.value, last.seq_length, last.batch_size)
          /\ (0 <= last.mask_length /\ last.mask_length <= last.seq_length)
             => /\ last.status = "ok"
                /\ \A t \in 1 .. last.seq_length, b \in 1 .. last.batch_size :
                     last.value[t][b] = 0
                     <=> /\ (last.seq_length - last.mask_length) \div 2 <= t - 1
                         /\ t - 1 < (last.seq_length - last.mask_length) \div 2
                                    + last.mask_length
    /\ Returned("create_random_mask")
       => /\ last.status = "ok"
          /\ Binary(last.value, last.seq_length, last.batch_size)
          /\ \A b \in 1 .. last.batch_size :
               last.value[1][b] = 1 /\ last.value[last.seq_length][b] = 1
    /\ (pc = "evaluating" \/ Returned("evaluate_random_masking"))
       => \A i \in 1 .. Len(last.masks) :
            /\ Binary(last.masks[i], Len(last.xs), 1)
            /\ last.masks[i][1][1] = 1 /\ last.masks[i][Len(last.xs)][1] = 1

\* a continuous mask of two columns or more whose run of zeros starts
\* after the first timestep and ends before the last
C13_Witness ==
    /\ Returned("create_continuous_mask")
    /\ last.status = "ok"
    /\ last.batch_size >= 2
    /\ last.mask_length >= 1
    /\ last.value[1][1] = 1
    /\ last.value[2][2] = 0
    /\ last.value[last.seq_length][1] = 1

\* C14: calculate_fraction_of_incorrect_pixels is a well-defined value in
\* [0, 1] for every mask evaluate_random_masking passes to it, for each of
\* its dropout probabilities 0.0 .. 1: no division by zero on a mask with
\* no masked timestep.
C14_FractionWellDefined ==
    (pc = "evaluating" \/ Returned("evaluate_random_masking"))
    => \A i \in 1 .. Len(last.filtering) :
         /\ ~last.filtering[i].nan
         /\ 0 <= last.filtering[i].value /\ last.filtering[i].value <= One
         /\ ~last.smoothing[i].nan
         /\ 0 <= last.smoothing[i].value /\ last.smoothing[i].value <= One

====
